---------------------------- MODULE Spec2Model ----------------------------
(***************************************************************************)
(* A model of documents/Thermistors/thermistors.py: the unit converters,   *)
(* the significant-digit rounder signif, the Steinhart-Hart forward and    *)
(* inverse evaluations T_C / T_F / Rt_fromTC_ABC, the coefficient fitter   *)
(* ABCatRT and the ADC divider arithmetic.                                 *)
(*                                                                         *)
(* Python floats are modelled as decimal fixed-point integers.  TLC's      *)
(* integers are 32 bits wide, so every quantity carries the scale that     *)
(* keeps it below 2^31 while leaving at least seven significant digits:    *)
(*    temperatures (Celsius, Fahrenheit, Kelvin)   in units of 10^-6       *)
(*    natural logarithms of resistances            in units of 10^-7       *)
(*    reciprocal Kelvin and the coefficients A, B  in units of 10^-11      *)
(*    the coefficient C                            in units of 10^-14      *)
(*    resistances and ADC codes                    as integers             *)
(***************************************************************************)
EXTENDS Integers, Sequences, FiniteSets, TLC

VARIABLES
  fn,    \* the function being called
  arg,   \* its first argument: a number or a list of numbers
  par,   \* its other arguments
  pc,    \* "call", "loop" (inside a list comprehension) or "done"
  lf,    \* the function the running list comprehension applies
  src,   \* the list the running list comprehension ranges over
  i,     \* the index of its next element (from 1)
  acc,   \* the results it has collected
  out,   \* the lines written to standard output
  ret,   \* the outcome of the call: a value returned or an exception raised
  hist   \* the calls completed before this one, when calls are chained

vars == <<fn, arg, par, pc, lf, src, i, acc, out, ret, hist>>

(***************************************************************************)
(* Arithmetic on 32-bit integers that stands for Python's float arithmetic *)
(***************************************************************************)

Abs(n) == IF n < 0 THEN -n ELSE n

Sgn(n) == IF n < 0 THEN -1 ELSE IF n > 0 THEN 1 ELSE 0

Pow10(k) ==
  <<1, 10, 100, 1000, 10000, 100000, 1000000, 10000000, 100000000,
    1000000000>>[k + 1]

Pow2(k) ==
  <<1, 2, 4, 8, 16, 32, 64, 128, 256, 512, 1024, 2048, 4096, 8192, 16384,
    32768, 65536, 131072, 262144, 524288, 1048576, 2097152, 4194304, 8388608,
    16777216, 33554432, 67108864, 134217728, 268435456, 536870912,
    1073741824>>[k + 1]

\* The k with 2^k <= n < 2^(k+1), for 1 <= n < 2^31.
FloorLog2(n) == CHOOSE k \in 0..30 : Pow2(k) <= n /\ (k = 30 \/ n < Pow2(k + 1))

\* 1 when doubling the remainder r reaches the modulus c.
Carry(r, c) == IF 2 * r >= c THEN 1 ELSE 0

\* <<q, r>> plus a, modulo c.
AddMod(q, r, a, c) ==
  IF r + (a % c) >= c THEN <<q + (a \div c) + 1, r + (a % c) - c>>
  ELSE <<q + (a \div c), r + (a % c)>>

\* One bit of a long multiplication modulo c: from <<q, r>> with x = q*c + r
\* to the pair for 2*x + bit*a.  No intermediate value leaves 32 bits when
\* 0 <= r < c < 2^30.
MulStep(qr, a, c, bit) ==
  IF bit = 0
    THEN <<2 * qr[1] + Carry(qr[2], c), 2 * qr[2] - c * Carry(qr[2], c)>>
    ELSE AddMod(2 * qr[1] + Carry(qr[2], c), 2 * qr[2] - c * Carry(qr[2], c),
                a, c)

\* <<q, r>> with a*b = q*c + r and 0 <= r < c, for a, b >= 0 and 0 < c < 2^30,
\* five bits of b at a time.
RECURSIVE MulDivQR(_, _, _)
MulDivQR(a, b, c) ==
  IF b = 0 THEN <<0, 0>>
  ELSE LET h  == MulDivQR(a, b \div 32, c)
           s1 == MulStep(h, a, c, (b \div 16) % 2)
           s2 == MulStep(s1, a, c, (b \div 8) % 2)
           s3 == MulStep(s2, a, c, (b \div 4) % 2)
           s4 == MulStep(s3, a, c, (b \div 2) % 2)
           s5 == MulStep(s4, a, c, b % 2)
       IN  <<s1, s2, s3, s4, s5>>[5]

\* The quotient of <<q, r>> rounded to the nearest integer.
Nearest(qr, c) == IF 2 * qr[2] >= c THEN qr[1] + 1 ELSE qr[1]

\* a*b/c rounded to the nearest integer, signs handled: the float product or
\* quotient of two quantities, rescaled.  (Callers test c # 0 first, as the
\* code's divisions raise ZeroDivisionError there.)
MulDiv(a, b, c) ==
  IF a = 0 \/ b = 0 \/ c = 0 THEN 0
  ELSE Sgn(a) * Sgn(b) * Sgn(c)
         * Nearest(MulDivQR(Abs(a), Abs(b), Abs(c)), Abs(c))

\* Python's round(): n/unit rounded to an integer, ties to even.
RoundHalfEven(n, unit) ==
  IF 2 * (n % unit) > unit THEN (n \div unit) + 1
  ELSE IF 2 * (n % unit) < unit THEN n \div unit
  ELSE IF (n \div unit) % 2 = 0 THEN n \div unit ELSE (n \div unit) + 1

(***************************************************************************)
(* math.log, math.exp, math.sqrt and x**(1/3) in fixed point               *)
(***************************************************************************)

\* ln 2 in units of 10^-8
Ln2e8 == 69314718 * Pow10(0)

\* zn/n + zn*z2/(n+2) + ... up to the power 19, in units of 10^-8: the series
\* atanh(z) = z + z^3/3 + z^5/5 + ... from the term zn = z^n on (the terms
\* after z^19 are below 10^-10 for z < 1/3).
RECURSIVE AtanhSeries(_, _, _)
AtanhSeries(zn, z2, n) ==
  IF n > 19 THEN 0
  ELSE MulDiv(zn, 1, n) + AtanhSeries(MulDiv(zn, z2, Pow10(8)), z2, n + 2)

\* ln(m * 2^k) for 1 <= m < 2 (m in units of 10^-8), in units of 10^-8:
\* ln m = 2 atanh(z) with z = (m-1)/(m+1).
LnParts(k, z) == k * Ln2e8 + 2 * AtanhSeries(z, MulDiv(z, z, Pow10(8)), 1)

LnMantissa(k, m) ==
  LnParts(k, MulDiv(m - Pow10(8), Pow10(8), m + Pow10(8)))

\* math.log(r) for an integer r >= 1, in units of 10^-7.
Ln(r) ==
  MulDiv(LnMantissa(FloorLog2(r), MulDiv(r, Pow10(8), Pow2(FloorLog2(r)))),
         1, 10)

\* t + t*x/n + t*x^2/(n(n+1)) + ... up to the divisor 13, in units of 10^-9:
\* the series e^x = 1 + x + x^2/2! + ... from the term t on (x in units of
\* 10^-7; the terms after x^13/13! are below 10^-11 for x < ln 2).
RECURSIVE ExpSeries(_, _, _)
ExpSeries(t, x, n) ==
  IF n > 13 THEN t
  ELSE t + ExpSeries(MulDiv(t, x, n * Pow10(7)), x, n + 1)

\* 2^k * e^x in units of 10^-3.
ExpParts(k, x) ==
  MulDiv(Pow10(9) + ExpSeries(x * 100, x, 2), Pow2(k), Pow10(6))

\* math.exp(l) for l >= 0 in units of 10^-7, in units of 10^-3:
\* l = k ln 2 + x with 0 <= x < ln 2.
Exp(l) == ExpParts((l * 10) \div Ln2e8, MulDiv((l * 10) % Ln2e8, 1, 10))

\* One step of Newton's iteration for the square root of the integer n, in
\* units of 10^-4.
SqrtStep(n, x) == (x + MulDiv(n, Pow10(8), x)) \div 2

RECURSIVE SqrtIter(_, _, _, _)
SqrtIter(n, x, y, fuel) ==
  IF fuel = 0 \/ Abs(y - x) <= 1 THEN y
  ELSE SqrtIter(n, y, SqrtStep(n, y), fuel - 1)

SqrtFrom(n, x) == SqrtIter(n, x, SqrtStep(n, x), 12)

\* math.sqrt(n) for an integer n >= 0, started from a power of two above it.
Sqrt(n) ==
  IF n = 0 THEN 0
  ELSE SqrtFrom(n, Pow10(4) * Pow2((FloorLog2(n) + 2) \div 2))

\* One step of Newton's iteration for the cube root of x (units of 10^-4), in
\* units of 10^-7.
CbrtStep(x, c) ==
  (2 * c + MulDiv(MulDiv(x, Pow10(9), c), Pow10(8), c)) \div 3

RECURSIVE CbrtIter(_, _, _, _)
CbrtIter(x, c, y, fuel) ==
  IF fuel = 0 \/ Abs(y - c) <= 1 THEN y
  ELSE CbrtIter(x, y, CbrtStep(x, y), fuel - 1)

CbrtFrom(x, c) == CbrtIter(x, c, CbrtStep(x, c), 12)

\* x**(1/3) for x > 0, started from a power of two above it
\* (464159 is 10^7 / 10000^(1/3)).
Cbrt(x) ==
  IF x = 0 THEN 0
  ELSE CbrtFrom(x, 464159 * Pow2((FloorLog2(x) + 3) \div 3))

(***************************************************************************)
(* Python values and call outcomes                                         *)
(***************************************************************************)

\* A float or an int (t = "num"), an infinity or a NaN, a flat list of numbers.
Num(n) == [t |-> "num", v |-> n, items |-> <<>>]

List(s) == [t |-> "list", v |-> 0, items |-> s]

Inf(sign) == [t |-> "inf", v |-> sign, items |-> <<>>]

NaN == [t |-> "nan", v |-> 0, items |-> <<>>]

NoneVal == [t |-> "none", v |-> 0, items |-> <<>>]

\* A call returns a value or raises an exception of class exc.
Return(val) == [exc |-> "none", val |-> val]

Raise(e) == [exc |-> e, val |-> NoneVal]

Pending == [exc |-> "pending", val |-> NoneVal]

(***************************************************************************)
(* signif (lines 4-8)                                                      *)
(***************************************************************************)

\* math.ceil(math.log10(n)) for an integer n >= 1: the least j with n <= 10^j.
RECURSIVE CeilLog10(_)
CeilLog10(n) == IF n <= 1 THEN 0 ELSE 1 + CeilLog10((n - 1) \div 10 + 1)

\* round(x, nd) of the number n / 10^dec, ties to even; a number that has no
\* more than nd decimals is returned as it is.
RoundTo(n, nd, dec) ==
  IF nd >= dec THEN n
  ELSE RoundHalfEven(n, Pow10(dec - nd)) * Pow10(dec - nd)

\* Fault model: signif without the "x == 0" test of line 5, where
\* math.log10(0) raises ValueError.
signif_unguarded(x, digits, dec) ==
  IF x.t = "list" THEN Raise("TypeError")
  ELSE IF x.t # "num" THEN Return(x)
  ELSE IF x.v = 0 THEN Raise("ValueError")
  ELSE Return(Num(RoundTo(x.v, digits - (CeilLog10(Abs(x.v)) - dec), dec)))

\* signif(x, digits) for x a Python value whose number is in units of 10^-dec.
\* A list passes "x == 0" as False and then fails in math.isfinite.
signif(x, digits, dec) ==
  IF x.t = "list" THEN Raise("TypeError")
  ELSE IF x.t # "num" \/ x.v = 0 THEN Return(x)
  ELSE Return(Num(RoundTo(x.v, digits - (CeilLog10(Abs(x.v)) - dec), dec)))

(***************************************************************************)
(* Unit converters (lines 13-24), scalar branch; degrees in units of 10^-6 *)
(***************************************************************************)

TUnit == Pow10(6)

degFtoC_scalar(degF) == MulDiv(degF - 32 * TUnit, 5, 9)

degCtoF_scalar(degC) == MulDiv(degC, 9, 5) + 32 * TUnit

degCtoK_scalar(degC) == degC + 273150000

degKtoC_scalar(degK) == degK - 273150000

(***************************************************************************)
(* Steinhart-Hart model, scalar branches.  A coefficient triple is a       *)
(* record [A, B, C] with A, B in units of 10^-11 and C in units of 10^-14. *)
(***************************************************************************)

\* A + B*L + C*L**3 of line 43 for L = math.log(rt), in units of 10^-11.
SHPoly(k, L) ==
  k.A + MulDiv(k.B, L, Pow10(7))
      + MulDiv(k.C, MulDiv(MulDiv(L, L, Pow10(7)), L, Pow10(9)), Pow10(8))

SHDenominator(rt, k) == SHPoly(k, Ln(rt))

\* degKtoC(1/den) of line 43; the float division raises ZeroDivisionError for
\* a zero denominator.
InverseKelvin(den) ==
  IF den = 0 THEN Raise("ZeroDivisionError")
  ELSE Return(Num(degKtoC_scalar(MulDiv(Pow10(9), Pow10(8), den))))

\* Fault model: a logarithm that yields NaN outside its domain instead of
\* raising (as numpy.log does), so that no exception stops the call.
T_C_raw_quiet(rt, k) ==
  IF rt <= 0 THEN Return(NaN) ELSE InverseKelvin(SHDenominator(rt, k))

\* degKtoC(1/(A + B*math.log(rt) + C*math.log(rt)**3)) of line 43, before the
\* rounding of line 44.  math.log is evaluated first and raises ValueError
\* (math domain error) for rt <= 0.
T_C_raw(rt, k) ==
  IF rt <= 0 THEN Raise("ValueError") ELSE InverseKelvin(SHDenominator(rt, k))

\* Line 44 after line 43: signif(TC, 4) of the value computed, if any.
Signif4(o, dec) == IF o.exc # "none" THEN o ELSE signif(o.val, 4, dec)

\* T_C for a number (lines 42-47): the value returned, rounded by signif(TC, 4).
T_C_scalar(rt, k) == Signif4(T_C_raw(rt, k), 6)

\* Lines 50-51 on the number T_C returned: degCtoF, then signif(TF, 4).
T_F_of(tc) ==
  IF tc.exc # "none" THEN tc
  ELSE signif(Num(degCtoF_scalar(tc.val.v)), 4, 6)

\* T_F for a number (lines 50-54).
T_F_scalar(rt, k) == T_F_of(T_C_scalar(rt, k))

\* round(math.exp(l)) for l in units of 10^-7.
RoundExp(l) ==
  IF l < 0 THEN (IF l * 10 < -Ln2e8 THEN 0 ELSE 1)
  ELSE RoundHalfEven(Exp(l), Pow10(3))

\* Lines 102-104: lnR = B/(3*C*x13) - x13 and R = round(math.exp(lnR)), with
\* p = B/(3*C).
R_from_x13(p, x13) == RoundExp(MulDiv(p, Pow10(8), x13) - x13)

\* Lines 102-103 from x: x**(1/3) of a negative float is a complex number,
\* which math.exp rejects; x13 = 0 divides by zero.
R_from_x(p, x) ==
  IF x = 0 THEN Raise("ZeroDivisionError")
  ELSE IF x < 0 THEN Raise("TypeError")
  ELSE Return(Num(R_from_x13(p, Cbrt(x))))

\* Line 101 from the radicand (B/(3*C))**3 + y**2: math.sqrt raises
\* ValueError below zero.
R_from_rad(p, y, rad) ==
  IF rad < 0 THEN Raise("ValueError") ELSE R_from_x(p, y + Sqrt(rad))

R_from_y(p, y) ==
  R_from_rad(p, y,
             MulDiv(MulDiv(p, p, Pow10(9)), p, Pow10(9)) + MulDiv(y, y, Pow10(8)))

\* Rt_fromTC_ABC for a number (lines 99-107), TC in units of 10^-6.
Rt_fromTC_ABC_scalar(TC, k) ==
  IF degCtoK_scalar(TC) = 0 \/ k.C = 0 THEN Raise("ZeroDivisionError")
  ELSE R_from_y(MulDiv(k.B, Pow10(9), 3 * k.C),
                MulDiv(k.A - MulDiv(Pow10(9), Pow10(8), degCtoK_scalar(TC)),
                       Pow10(7), 2 * k.C))

(***************************************************************************)
(* ABCatRT (lines 118-130); TC in units of 10^-6, Rt in ohms               *)
(***************************************************************************)

\* Line 124: A = Y[0] - L[0]*(B+C*L[0]**2), and the triple computed.
ABC_A(L, Y, Cc, B) ==
  Return(List(<<Y[1] - MulDiv(L[1],
                             B + MulDiv(Cc, MulDiv(L[1], L[1], Pow10(9)),
                                        Pow10(7)),
                             Pow10(8)),
                MulDiv(B, 1, 10),
                Cc>>))

\* Line 123: B = y[0] - C*(L[0]**2+L[0]*L[1]+L[1]**2), in units of 10^-12.
ABC_B(L, Y, y, Cc) ==
  ABC_A(L, Y, Cc,
        y[1] - MulDiv(Cc,
                      MulDiv(L[1], L[1], Pow10(9)) + MulDiv(L[1], L[2], Pow10(9))
                        + MulDiv(L[2], L[2], Pow10(9)),
                      Pow10(7)))

\* Line 122: C = (y[1]-y[0])/(L[2]-L[1])/sum(L).
ABC_C(L, Y, y) ==
  IF L[3] = L[2] \/ L[1] + L[2] + L[3] = 0 THEN Raise("ZeroDivisionError")
  ELSE ABC_B(L, Y, y,
             MulDiv(MulDiv(y[2] - y[1], Pow10(7), L[3] - L[2]), Pow10(9),
                    L[1] + L[2] + L[3]))

\* Line 121: y = [(Y[i]-Y[0])/(L[i]-L[0]) for i in range(1, len(Y))].
ABC_y(L, Y) ==
  IF L[2] = L[1] \/ L[3] = L[1] THEN Raise("ZeroDivisionError")
  ELSE ABC_C(L, Y, <<MulDiv(Y[2] - Y[1], Pow10(8), L[2] - L[1]),
                     MulDiv(Y[3] - Y[1], Pow10(8), L[3] - L[1])>>)

\* Line 120: 1/degCtoK(TC[i]).
ABC_Y(TC, j) == MulDiv(Pow10(9), Pow10(8), degCtoK_scalar(TC[j]))

\* The triple computed by lines 119-124, before the rounding of lines 125-127.
\* Line 119 takes the logarithm of every resistance first, line 120 the
\* reciprocal of every Kelvin temperature next.
ABC_raw(TC, Rt) ==
  IF \E j \in 1..3 : Rt[j] <= 0 THEN Raise("ValueError")
  ELSE IF \E j \in 1..3 : degCtoK_scalar(TC[j]) = 0
    THEN Raise("ZeroDivisionError")
  ELSE ABC_y(<<Ln(Rt[1]), Ln(Rt[2]), Ln(Rt[3])>>,
             <<ABC_Y(TC, 1), ABC_Y(TC, 2), ABC_Y(TC, 3)>>)

\* Lines 125-127: each coefficient through signif(., 4).
ABC_signif(raw) ==
  IF raw.exc # "none" THEN raw
  ELSE Return(List(<<signif(Num(raw.val.items[1]), 4, 11).val.v,
                     signif(Num(raw.val.items[2]), 4, 11).val.v,
                     signif(Num(raw.val.items[3]), 4, 14).val.v>>))

\* The list ABCatRT returns.
ABCatRT(TC, Rt) == ABC_signif(ABC_raw(TC, Rt))

\* The coefficient triple a list [A, B, C] stands for.
Coef(abc) == [A |-> abc[1], B |-> abc[2], C |-> abc[3]]

(***************************************************************************)
(* ADC divider arithmetic, scalar branches (lines 75 and 88)               *)
(***************************************************************************)

\* round(rs*(Vmax/Vout - 1)).  The quotient Vmax/Vout is rounded to a float
\* before the subtraction and the product, so when rs*(Vmax-Vout)/Vout lies
\* exactly halfway between two integers the float handed to round() may lie on
\* either side of the tie (3*(7/6 - 1) is 0.5000000000000002); fperr is the
\* sign of that error: -1 below, 1 above, 0 exact.
RoundFloat(n, unit, fperr) ==
  IF 2 * (n % unit) = unit /\ fperr # 0
    THEN (n \div unit) + (IF fperr > 0 THEN 1 ELSE 0)
    ELSE RoundHalfEven(n, unit)

\* Fault model: the divider formula without its "- 1", round(rs*Vmax/Vout).
Rt_fromADCvalues_noOffset(Vout, Vmax, rs, fperr) ==
  IF Vout = 0 THEN Raise("ZeroDivisionError")
  ELSE Return(Num(RoundFloat(rs * Vmax, Vout, fperr)))

\* Rt_fromADCvalues for a number (line 75).
Rt_fromADCvalues_scalar(Vout, Vmax, rs, fperr) ==
  IF Vout = 0 THEN Raise("ZeroDivisionError")
  ELSE Return(Num(RoundFloat(rs * (Vmax - Vout), Vout, fperr)))

\* round(Vmax*rs/(rs+rt)): one correctly rounded division of two integers, so
\* a tie reaches round() exactly.
Vout_ADC_scalar(rt, rs, Vmax) ==
  IF rs + rt = 0 THEN Raise("ZeroDivisionError")
  ELSE Return(Num(RoundHalfEven(Vmax * rs, rs + rt)))

(***************************************************************************)
(* Calls: the isinstance test, the scalar branch, the list comprehension   *)
(***************************************************************************)

\* The functions whose body is "if not isinstance(x, list): <scalar branch>"
\* followed by a list comprehension over the same function.
Lifted ==
  {"degFtoC", "degCtoF", "degCtoK", "degKtoC", "T_C", "Rt_fromTC_ABC",
   "Rt_fromADCvalues", "Vout_ADC"}

\* The scalar branch of function f on the number x with the other arguments p.
Scalar(f, x, p) ==
  CASE f = "degFtoC" -> Return(Num(degFtoC_scalar(x)))
    [] f = "degCtoF" -> Return(Num(degCtoF_scalar(x)))
    [] f = "degCtoK" -> Return(Num(degCtoK_scalar(x)))
    [] f = "degKtoC" -> Return(Num(degKtoC_scalar(x)))
    [] f = "T_C" -> T_C_scalar(x, p.k)
    [] f = "Rt_fromTC_ABC" -> Rt_fromTC_ABC_scalar(x, p.k)
    [] f = "Rt_fromADCvalues" -> Rt_fromADCvalues_scalar(x, p.Vmax, p.rs, p.fperr)
    [] f = "Vout_ADC" -> Vout_ADC_scalar(x, p.rs, p.Vmax)

\* Fault model: a report that puts the newest line first.
EmitFirst(lines, v) == <<v>> \o lines

\* print(" " + str(v)): one more line on standard output.
Emit(lines, v) == Append(lines, v)

\* Whether the scalar branch of f prints its result (lines 45-46, 105-106).
\* T_F calls T_C with printVals=False (line 50).
Prints(f, p, caller) == f \in {"T_C", "Rt_fromTC_ABC"} /\ p.printVals /\ caller = f

\* Fault model: a comprehension that reads the list from its end.
ElementAtFromEnd(s, j) == s[Len(s) - j + 1]

\* x[i] of the list comprehension "[f(x[i]) for i in range(len(x))]".
ElementAt(s, j) == s[j]

\* The list a comprehension has built after one more element.
Collect(results, v) == Append(results, v)

\* The end of a call whose body ran whole with outcome o: the value is printed
\* when printing is on, and returned; an exception leaves the output as it is.
Finish(o, printing) ==
  /\ ret' = o
  /\ out' = IF o.exc = "none" /\ printing THEN Emit(out, o.val) ELSE out
  /\ pc' = "done"

\* A function of Lifted called on a number: the scalar branch, whole.
CallScalar ==
  /\ pc = "call" /\ fn \in Lifted /\ arg.t = "num"
  /\ Finish(Scalar(fn, arg.v, par), Prints(fn, par, fn))
  /\ UNCHANGED <<fn, arg, par, lf, src, i, acc, hist>>

\* A function of Lifted called on a list: its list comprehension starts.
CallList ==
  /\ pc = "call" /\ fn \in Lifted /\ arg.t = "list"
  /\ pc' = "loop" /\ lf' = fn /\ src' = arg.items /\ i' = 1 /\ acc' = <<>>
  /\ UNCHANGED <<fn, arg, par, out, ret, hist>>

\* The recursive call on x[i] had outcome o: it printed and returned, or it
\* raised and ended the whole call.
Element(o) ==
  IF o.exc # "none"
    THEN /\ ret' = o /\ pc' = "done"
         /\ UNCHANGED <<i, acc, out>>
    ELSE /\ acc' = Collect(acc, o.val.v) /\ i' = i + 1
         /\ out' = IF Prints(lf, par, fn) THEN Emit(out, o.val) ELSE out
         /\ UNCHANGED <<ret, pc>>

\* One element of the running list comprehension.
Iter ==
  /\ pc = "loop" /\ i <= Len(src)
  /\ Element(Scalar(lf, ElementAt(src, i), par))
  /\ UNCHANGED <<fn, arg, par, lf, src, hist>>

\* The list comprehension of a function of Lifted is complete: return it.
EndLoop ==
  /\ pc = "loop" /\ i > Len(src) /\ fn = lf
  /\ ret' = Return(List(acc)) /\ pc' = "done"
  /\ UNCHANGED <<fn, arg, par, lf, src, i, acc, out, hist>>

(***************************************************************************)
(* T_F (lines 49-54): T_C(rt, A, B, C, False), degCtoF, signif, print      *)
(***************************************************************************)

\* On a number the three calls are scalar and the body runs whole; on a list
\* T_C's list comprehension starts.
T_F_Call ==
  /\ pc = "call" /\ fn = "T_F"
  /\ IF arg.t = "num"
       THEN /\ Finish(T_F_scalar(arg.v, par.k), par.printVals)
            /\ UNCHANGED <<lf, src, i, acc>>
       ELSE /\ pc' = "loop" /\ lf' = "T_C" /\ src' = arg.items /\ i' = 1
            /\ acc' = <<>>
            /\ UNCHANGED <<ret, out>>
  /\ UNCHANGED <<fn, arg, par, hist>>

\* T_C returned its list: degCtoF is called on it and starts its own list
\* comprehension.
T_F_Convert ==
  /\ pc = "loop" /\ i > Len(src) /\ fn = "T_F" /\ lf = "T_C"
  /\ lf' = "degCtoF" /\ src' = acc /\ i' = 1 /\ acc' = <<>>
  /\ UNCHANGED <<fn, arg, par, pc, out, ret, hist>>

\* degCtoF returned its list: signif(TF, 4) is called on the list (line 51).
T_F_Round ==
  /\ pc = "loop" /\ i > Len(src) /\ fn = "T_F" /\ lf = "degCtoF"
  /\ Finish(signif(List(acc), 4, 6), par.printVals)
  /\ UNCHANGED <<fn, arg, par, lf, src, i, acc, hist>>

(***************************************************************************)
(* ABCatRT and signif as calls                                             *)
(***************************************************************************)

\* ABCatRT(TC, Rt, printVals), whole: arg is the list TC, par.Rt the list Rt.
FitCall ==
  /\ pc = "call" /\ fn = "ABCatRT"
  /\ Finish(ABCatRT(arg.items, par.Rt), par.printVals)
  /\ UNCHANGED <<fn, arg, par, lf, src, i, acc, hist>>

\* signif(x, 4) on a number in units of 10^-par.dec.
SignifCall ==
  /\ pc = "call" /\ fn = "signif"
  /\ ret' = signif(arg, 4, par.dec)
  /\ pc' = "done"
  /\ UNCHANGED <<fn, arg, par, lf, src, i, acc, out, hist>>

(***************************************************************************)
(* Chained calls: the value one call returned is the next call's argument  *)
(***************************************************************************)

Logged == Append(hist, [fn |-> fn, arg |-> arg, ret |-> ret])

\* The caller passes the value just returned to function g.
Chain(g, p) ==
  /\ pc = "done" /\ ret.exc = "none"
  /\ hist' = Logged
  /\ fn' = g /\ arg' = ret.val /\ par' = p
  /\ pc' = "call" /\ ret' = Pending
  /\ UNCHANGED <<lf, src, i, acc, out>>

\* signif(signif(x, 4), 4)
SignifAgain == fn = "signif" /\ hist = <<>> /\ Chain("signif", par)

\* Vout_ADC(Rt_fromADCvalues(Vout, Vmax, rs), rs, Vmax)
ThenVoutADC == fn = "Rt_fromADCvalues" /\ hist = <<>> /\ Chain("Vout_ADC", par)

\* Rt_fromTC_ABC(T_C(Rt, A, B, C), A, B, C)
ThenInverse == fn = "T_C" /\ Len(hist) = 1 /\ Chain("Rt_fromTC_ABC", par)

RtSpan == 5          \* resistances tried around 10 kOhm

\* T_C(Rt, A, B, C) with the triple the fitter just returned, for a resistance
\* near the 10 kOhm calibration point.
ThenForward ==
  /\ pc = "done" /\ fn = "ABCatRT" /\ ret.exc = "none"
  /\ \E rt \in (10000 - RtSpan)..(10000 + RtSpan) :
       /\ arg' = Num(rt)
       /\ par' = [par EXCEPT !.k = Coef(ret.val.items), !.printVals = FALSE]
  /\ hist' = Logged
  /\ fn' = "T_C" /\ pc' = "call" /\ ret' = Pending
  /\ UNCHANGED <<lf, src, i, acc, out>>

(***************************************************************************)
(* Inputs                                                                  *)
(***************************************************************************)

MaxLen == 3          \* longest list passed to a function

MaxVmax == 10        \* largest full-scale ADC code of the small circuits

MaxRs == 12          \* largest series resistance of the small circuits

MaxMant == 1000      \* mantissas 0..MaxMant and 99000..99000+MaxMant go to signif

MaxExp10 == 1        \* largest power of ten the mantissa is scaled by

\* The coefficients the script passes to T_C and Rt_fromTC_ABC (lines 145, 154)
K3 == [A |-> 102900000, B |-> 23910000, C |-> 15660000]

K2 == [A |-> 112700000, B |-> 23440000, C |-> 8675000]

\* A triple whose denominator vanishes at rt = 1 (A = 0, ln 1 = 0).
KZ == [A |-> 0, B |-> 100000000, C |-> 10000000]

NoK == [A |-> 0, B |-> 0, C |-> 0]

MkPar(k, printVals, Rt, Vmax, rs, fperr, dec) ==
  [k |-> k, printVals |-> printVals, Rt |-> Rt, Vmax |-> Vmax, rs |-> rs,
   fperr |-> fperr, dec |-> dec]

RECURSIVE ListsUpTo(_, _)
ListsUpTo(S, n) ==
  IF n = 0 THEN {<<>>}
  ELSE LET shorter == ListsUpTo(S, n - 1)
       IN  shorter \cup {Append(l, x) : l \in {m \in shorter : Len(m) = n - 1},
                                        x \in S}

Start(f, a, p) ==
  /\ fn = f /\ arg = a /\ par = p
  /\ pc = "call" /\ lf = "" /\ src = <<>> /\ i = 0 /\ acc = <<>>
  /\ out = <<>> /\ ret = Pending /\ hist = <<>>

(***************************************************************************)
(* signif applied twice                                                    *)
(***************************************************************************)

SignifInputs ==
  {Num(sg * (b + m) * Pow10(e)) :
     sg \in {-1, 1}, b \in {0, 99000}, m \in 0..MaxMant, e \in 0..MaxExp10}
    \cup {Inf(1), Inf(-1), NaN}

InitSignif ==
  \E x \in SignifInputs :
    Start("signif", x, MkPar(NoK, FALSE, <<>>, 0, 0, 0, 3))

NextSignif == SignifCall \/ SignifAgain

SpecSignif == InitSignif /\ [][NextSignif]_vars

(***************************************************************************)
(* The ADC round trip                                                      *)
(***************************************************************************)

\* Small circuits, and the 10-bit converter with a 10 kOhm series resistor
\* of the script's examples (lines 78-80, 91-92).
Circuits ==
  {<<v, r>> : v \in 1..MaxVmax, r \in 1..MaxRs} \cup {<<1023, 10000>>}

InitADC ==
  \E c \in Circuits : \E v \in 0..c[1] : \E e \in {-1, 0, 1} :
    Start("Rt_fromADCvalues", Num(v), MkPar(NoK, FALSE, <<>>, c[1], c[2], e, 0))

NextADC == CallScalar \/ ThenVoutADC

SpecADC == InitADC /\ [][NextADC]_vars

(***************************************************************************)
(* The converters and the ADC functions on lists                           *)
(***************************************************************************)

LiftFns ==
  {"degFtoC", "degCtoF", "degCtoK", "degKtoC", "Rt_fromADCvalues", "Vout_ADC"}

LiftDom(f) ==
  CASE f = "Rt_fromADCvalues" -> {0, 465, 1000}
    [] f = "Vout_ADC" -> {0, 230, 12000}
    [] OTHER -> {-40 * TUnit, 32 * TUnit, 273150000}

InitLift ==
  \E f \in LiftFns : \E l \in ListsUpTo(LiftDom(f), MaxLen) :
    Start(f, List(l), MkPar(NoK, FALSE, <<>>, 1023, 10000, 0, 0))

NextLift == CallList \/ Iter \/ EndLoop

SpecLift == InitLift /\ [][NextLift]_vars

(***************************************************************************)
(* T_C, T_F and Rt_fromTC_ABC on numbers and lists                         *)
(***************************************************************************)

EvalRt == {0, 1, 9998, 10000}

EvalTC == {0, 25 * TUnit, -273150000}

InitEval ==
  \/ \E f \in {"T_C", "T_F"} : \E k \in {K3, KZ} : \E pv \in BOOLEAN :
       \E a \in {Num(x) : x \in EvalRt \cup {-5}}
                  \cup {List(l) : l \in ListsUpTo(EvalRt, MaxLen)} :
         Start(f, a, MkPar(k, pv, <<>>, 0, 0, 0, 0))
  \/ \E k \in {K3, K2} : \E pv \in BOOLEAN :
       \E a \in {Num(x) : x \in EvalTC}
                  \cup {List(l) : l \in ListsUpTo(EvalTC, MaxLen)} :
         Start("Rt_fromTC_ABC", a, MkPar(k, pv, <<>>, 0, 0, 0, 0))

NextEval ==
  CallScalar \/ CallList \/ Iter \/ EndLoop \/ T_F_Call \/ T_F_Convert
    \/ T_F_Round

SpecEval == InitEval /\ [][NextEval]_vars

(***************************************************************************)
(* The fitter, then the round trip through the fitted model                *)
(***************************************************************************)

\* The calibration resistances at 0, 25 and 50 Celsius of lines 143, 152 and
\* 161, and lists with a repeated or a non-positive resistance.
CalRt ==
  {<<29490, 10000, 3893>>, <<32650, 10000, 3602>>, <<31426, 9900, 3515>>,
   <<10000, 10000, 3893>>, <<29490, 10000, 10000>>, <<10000, 3893, 10000>>,
   <<0, 10000, 3893>>, <<29490, -5, 3893>>}

InitFit ==
  \E r \in CalRt : \E pv \in BOOLEAN :
    Start("ABCatRT", List(<<0, 25 * TUnit, 50 * TUnit>>),
          MkPar(NoK, pv, r, 0, 0, 0, 0))

NextFit == FitCall \/ ThenForward \/ CallScalar \/ ThenInverse

SpecFit == InitFit /\ [][NextFit]_vars

(***************************************************************************)
(* Properties                                                              *)
(***************************************************************************)

\* The outcomes of the scalar calls of f on the elements of xs, in order.
Outcomes(f, xs, p) == [j \in 1..Len(xs) |-> Scalar(f, xs[j], p)]

\* The index of the first outcome that is an exception; Len(os) + 1 if none is.
FirstBad(os) ==
  IF \E j \in 1..Len(os) : os[j].exc # "none"
    THEN CHOOSE j \in 1..Len(os) :
           os[j].exc # "none" /\ \A m \in 1..(j - 1) : os[m].exc = "none"
    ELSE Len(os) + 1

\* The numbers returned by the first n outcomes, and the lines they print.
Values(os, n) == [j \in 1..n |-> os[j].val.v]

Lines(os, n) == [j \in 1..n |-> os[j].val]

\* ---- signif ---------------------------------------------------------------

\* C9: signif at 4 digits is idempotent: for every finite x, also one that
\* rounds up across a power of ten (99.995) or is a power of ten,
\* signif(signif(x, 4), 4) = signif(x, 4); zero and non-finite x are returned
\* unchanged.
SignifIdempotent ==
  pc = "done" /\ fn = "signif" =>
    /\ hist = <<>> /\ (arg.t # "num" \/ arg.v = 0) => ret = Return(arg)
    /\ hist # <<>> => ret = hist[1].ret

\* 99.995 was rounded to 100.0, and rounding 100.0 again has returned 100.0.
SignifAcrossPowerOfTen ==
  /\ pc = "done" /\ fn = "signif" /\ hist # <<>>
  /\ hist[1].arg = Num(99995) /\ hist[1].ret = Return(Num(100000))
  /\ ret = Return(Num(100000))

\* ---- the ADC round trip ---------------------------------------------------

\* A resistance was computed from a code in 1..Vmax, and the code computed
\* back from it is within one count of the first.
ADCWithinOneCount ==
  /\ fn = "Rt_fromADCvalues" /\ arg.v >= 1 => ret.exc = "none"
  /\ fn = "Vout_ADC" =>
       ret.exc = "none" /\ Abs(ret.val.v - hist[1].arg.v) <= 1

\* C4 as stated: for every code Vout in 1..Vmax and every positive rs,
\* Vout_ADC(Rt_fromADCvalues(Vout, Vmax, rs), rs, Vmax) is within one count of
\* Vout.
ADCRoundTrip == pc = "done" => ADCWithinOneCount

\* C4 with the condition it needs: the same, for a series resistance of at
\* least a third of full scale, 3*rs >= Vmax + 2 (in particular rs >= Vmax).
ADCRoundTripLargeRs ==
  pc = "done" /\ 3 * par.rs >= par.Vmax + 2 => ADCWithinOneCount

\* A round trip with 3*rs >= Vmax + 2 that came back one count off.
ADCOffByOne ==
  /\ pc = "done" /\ fn = "Vout_ADC" /\ 3 * par.rs >= par.Vmax + 2
  /\ ret.exc = "none" /\ Abs(ret.val.v - hist[1].arg.v) = 1

\* ---- element-wise lift ----------------------------------------------------

\* The comprehension has collected the results of the elements before i, in
\* order; a call on valid inputs returns the list of all the scalar results.
LiftHolds(os) ==
  /\ pc = "loop" => acc = Values(os, i - 1)
  /\ pc = "done" /\ FirstBad(os) > Len(os) =>
       ret = Return(List(Values(os, Len(os))))

\* C8: each of degFtoC, degCtoF, degCtoK, degKtoC, Rt_fromADCvalues and
\* Vout_ADC, called on a list of n valid inputs, returns a list of n results
\* in the same order, result i being the scalar call on input i alone.
LiftElementwise ==
  fn \in LiftFns /\ arg.t = "list" => LiftHolds(Outcomes(fn, arg.items, par))

\* Vout_ADC([230, 12000, 0], 10000, 1023) has returned [1000, 465, 1023].
LiftOfThree ==
  /\ pc = "done" /\ fn = "Vout_ADC" /\ arg = List(<<230, 12000, 0>>)
  /\ ret = Return(List(<<1000, 465, 1023>>))

\* ---- T_F on lists and numbers ---------------------------------------------

\* The outcomes of T_F on each element of xs.
T_F_each(xs, k) == [j \in 1..Len(xs) |-> T_F_scalar(xs[j], k)]

\* The call returned the list of the scalar results.
ReturnsAll(os) ==
  FirstBad(os) > Len(os) => ret = Return(List(Values(os, Len(os))))

\* C1: T_F on a list of n valid resistances returns the list of the n
\* Fahrenheit values in the same order, element i being the scalar call on
\* element i, and does not raise.
T_F_Elementwise ==
  pc = "done" /\ fn = "T_F" /\ arg.t = "list" =>
    ReturnsAll(T_F_each(arg.items, par.k))

\* C2: for a number, T_F returns signif(degCtoF(TC), 4) of the unrounded
\* Celsius temperature TC: the rounder is applied once, not to the Celsius
\* value first.
T_F_RoundsOnce ==
  pc = "done" /\ fn = "T_F" /\ arg.t = "num" /\ ret.exc = "none" =>
    ret = T_F_of(T_C_raw(arg.v, par.k))

\* ---- domain errors of T_C -------------------------------------------------

\* Whether T_C has no value at rt: the logarithm is undefined or the
\* denominator is zero.
BadRt(rt, k) == rt <= 0 \/ SHDenominator(rt, k) = 0

\* The first element of xs where T_C has no value.
FirstBadRt(xs, k) ==
  CHOOSE j \in 1..Len(xs) :
    BadRt(xs[j], k) /\ \A m \in 1..(j - 1) : ~BadRt(xs[m], k)

\* The call raised at the first such element: ValueError from math.log for
\* rt <= 0, ZeroDivisionError from the division otherwise; it returned nothing.
RaisedAt(rt) ==
  /\ ret.val = NoneVal
  /\ ret.exc = IF rt <= 0 THEN "ValueError" ELSE "ZeroDivisionError"

NoValueFor(xs, k) ==
  (\E j \in 1..Len(xs) : BadRt(xs[j], k)) => RaisedAt(xs[FirstBadRt(xs, k)])

\* C7: T_C called with a resistance rt <= 0, as a number or as an element of a
\* list, raises at the logarithm and returns no value, neither NaN nor an
\* infinity; so it does when A + B*ln(rt) + C*ln(rt)^3 is zero.
T_C_DomainErrors ==
  pc = "done" /\ fn = "T_C" =>
    /\ NoValueFor(IF arg.t = "num" THEN <<arg.v>> ELSE arg.items, par.k)
    /\ ret.exc = "none" => ret.val.t \in {"num", "list"}

\* T_C([10000, 0, 1], ...) has raised ValueError at its second element.
T_C_RaisedInList ==
  /\ pc = "done" /\ fn = "T_C" /\ arg = List(<<10000, 0, 1>>)
  /\ ret = Raise("ValueError")

\* ---- the printed report ---------------------------------------------------

\* One line per element handled so far, in input order; at an invalid element
\* the call ends with the lines of the elements before it and no result; with
\* none invalid it ends with all the lines and the list of results.
ReportHolds(os) ==
  /\ pc = "call" => out = <<>>
  /\ pc = "loop" => i - 1 < FirstBad(os) /\ out = Lines(os, i - 1)
  /\ pc = "done" =>
       /\ out = Lines(os, FirstBad(os) - 1)
       /\ ret = IF FirstBad(os) > Len(os)
                  THEN Return(List(Values(os, Len(os))))
                  ELSE Raise(os[FirstBad(os)].exc)

\* C10: T_C or Rt_fromTC_ABC called with printVals=True on a list prints one
\* line per element in input order; if element k is the first invalid one,
\* exactly the lines of the elements before it are printed when the error is
\* raised and no list is returned; if all are valid, all n lines are printed
\* before the n results are returned.
ReportInOrder ==
  fn \in {"T_C", "Rt_fromTC_ABC"} /\ arg.t = "list" /\ par.printVals =>
    ReportHolds(Outcomes(fn, arg.items, par))

\* T_C([10000, 9998, 0], ..., True) has printed two lines and raised.
ReportCutShort ==
  /\ pc = "done" /\ fn = "T_C" /\ par.printVals
  /\ arg = List(<<10000, 9998, 0>>)
  /\ Len(out) = 2 /\ out[1] # out[2] /\ ret.exc = "ValueError"

\* ---- the fitter -----------------------------------------------------------

\* C3: ABCatRT returns the unrounded triple computed from the three
\* calibration points; the rounding to 4 significant digits is for the
\* printed report only.
FitReturnsUnrounded ==
  pc = "done" /\ fn = "ABCatRT" /\ ret.exc = "none" =>
    ret = ABC_raw(arg.items, par.Rt)

\* C5: for a resistance Rt > 0 and a triple the fitter produced,
\* Rt_fromTC_ABC(T_C(Rt, A, B, C), A, B, C) is within 1 ohm of Rt.
RoundTripWithinOneOhm ==
  pc = "done" /\ fn = "Rt_fromTC_ABC" /\ Len(hist) = 2 =>
    ret.exc = "none" /\ Abs(ret.val.v - hist[2].arg.v) <= 1

\* The classes of the errors raised for a bad input value: a non-positive
\* resistance (line 43) and a zero ADC code (line 75).
BadValueErrors ==
  {T_C_raw(0, K3).exc, Rt_fromADCvalues_scalar(0, 1023, 10000, 0).exc}

\* C6: when two of the three calibration resistances are equal the fit
\* raises and returns no triple, and the error's class is not one raised for
\* a bad input value.
DegenerateFitError ==
  /\ pc = "done" /\ fn = "ABCatRT"
  /\ \A j \in 1..3 : par.Rt[j] > 0
  /\ \E j, m \in 1..3 : j # m /\ par.Rt[j] = par.Rt[m]
  => /\ ret.exc # "none" /\ ret.val = NoneVal
     /\ ret.exc \notin BadValueErrors

=============================================================================
